---- MODULE Spec2Model ----
(***************************************************************************)
(* Model of the chat-completions request path of skill-agent:              *)
(*   src/routes/v1/completions.py  (projection, invocation, packaging)     *)
(*   src/models/openai_schema.py   (request / response schemas)            *)
(*   src/dependencies.py           (get_agent)                             *)
(*   src/app.py                    (lifespan, application wiring)          *)
(*                                                                         *)
(* Python values are records tagged by their type in the field py, so that *)
(* None, "", a str, a list, a dict and an object stay distinguishable.     *)
(* Text built with f-strings is a sequence of fragments; a fragment of it  *)
(* is "contained" in the text.                                             *)
(***************************************************************************)
EXTENDS Integers, Sequences, FiniteSets, TLC

VARIABLES
    lifespan,        \* position of app.py lifespan: "startup", "running", "failed"
    app_state,       \* attribute names set on app.state
    pc,              \* position of the request in flight
    request,         \* the parsed JSON body of the request in flight
    agent_messages,  \* local of create_chat_completion
    invocations,     \* calls of agent.invoke made for the request in flight
    agent_outcome,   \* what agent.invoke did (returned value or raised exception)
    raised,          \* exceptions raised inside create_chat_completion, in order
    outcome,         \* how create_chat_completion was left (return or raise)
    http,            \* the HTTP response put on the wire
    served,          \* requests answered so far
    waiting,         \* requests received whose handler has not started yet
    agent_builds,    \* agents that create_agent has built for the application
    cancelled,       \* the hosting layer gave up on the request in flight
    cfg_pc,          \* position of a configuration resolution
    cfg_in,          \* its inputs: the call path, the arguments, the environment
    cfg_config,      \* the configuration object it built (AgentConfig, AppConfig)
    cfg_out,         \* how it ended: the client and agent built, or the error
    cfg_fs,          \* the directories that exist
    cfg_environ,     \* os.environ entries a resolution may write
    chat_pc,         \* position of chat_cli.run_interactive
    chat_messages,   \* its conversation history `messages`
    chat_before,     \* the history as it was at the last prompt
    chat_last,       \* what the last turn did
    conv_pc,         \* position of the projection harness
    conv_in,         \* its input message list
    conv_out         \* its result

vars == <<lifespan, app_state, pc, request, agent_messages, invocations,
          agent_outcome, raised, outcome, http, served, waiting, agent_builds,
          cancelled, cfg_pc, cfg_in, cfg_config, cfg_out, cfg_fs, cfg_environ,
          chat_pc, chat_messages, chat_before, chat_last,
          conv_pc, conv_in, conv_out>>

server_vars == <<lifespan, app_state, pc, request, agent_messages, invocations,
                 agent_outcome, raised, outcome, http, served, waiting, agent_builds,
                 cancelled>>

conv_vars == <<conv_pc, conv_in, conv_out>>

chat_vars == <<chat_pc, chat_messages, chat_before, chat_last>>

cfg_vars == <<cfg_pc, cfg_in, cfg_config, cfg_out, cfg_fs, cfg_environ>>

----------------------------------------------------------------------------
(* Bounds *)

MaxLen == 3          \* longest message list given to the projection harness
MaxMsgs == 1         \* longest message list of a served request
MaxReplyMsgs == 1    \* longest messages list of an agent reply
MaxRequests == 2     \* requests served in one run
UuidSeeds == 2       \* distinct values of each random part of a uuid4
MaxClock == 1        \* largest value of time.time()
MaxTurns == 2        \* answered turns kept in the chat client's history

----------------------------------------------------------------------------
(* Python values *)

PyNone == [py |-> "None"]
PyStr(s) == [py |-> "str", s |-> s]
PyInt(n) == [py |-> "int", n |-> n]
PyList(items) == [py |-> "list", items |-> items]

\* bool(v) as Python evaluates `not v` / `if v`
Truthy(v) ==
    CASE v.py = "None" -> FALSE
      [] v.py = "str" -> v.s # ""
      [] v.py = "int" -> v.n # 0
      [] v.py = "list" -> Len(v.items) > 0
      [] v.py = "dict" -> v.keys # {}
      [] OTHER -> TRUE

BoundedSeq(S, n) == UNION {[1..k -> S] : k \in 0..n}

Last(s) == s[Len(s)]

----------------------------------------------------------------------------
(* models/openai_schema.py *)

Roles == {"system", "user", "assistant", "function", "tool"}

ChatMessage(role, content, name, extra) ==
    [role |-> role, content |-> content, name |-> name, extra |-> extra]

\* Messages the schema accepts: any role, content and name Optional[str],
\* extra fields allowed.  Named messages carry an extra field as well.
ChatMessages ==
    {ChatMessage(r, c, PyNone, PyNone) :
        r \in Roles, c \in {PyNone, PyStr(""), PyStr("hi")}}
    \cup {ChatMessage(r, PyStr("hi"), PyStr("bob"), PyStr("x")) : r \in Roles}

----------------------------------------------------------------------------
(* routes/v1/completions.py: convert_openai_to_agent_messages *)

AgentMessage(msg) == [role |-> msg.role, content |-> msg.content]

\* ConvertStep without the `if not msg.content: continue` of lines 50-51.
ConvertStepKeepsEmpty(agent_msgs, msg) ==
    IF msg.role = "system" THEN agent_msgs
    ELSE IF msg.role \in {"function", "tool"} THEN agent_msgs
    ELSE IF msg.role \in {"user", "assistant"}
         THEN Append(agent_msgs, AgentMessage(msg))
         ELSE agent_msgs

\* One iteration of the for loop: the list after msg has been looked at.
ConvertStep(agent_msgs, msg) ==
    IF msg.role = "system" THEN agent_msgs
    ELSE IF msg.role \in {"function", "tool"} THEN agent_msgs
    ELSE IF ~Truthy(msg.content) THEN agent_msgs
    ELSE IF msg.role \in {"user", "assistant"}
         THEN Append(agent_msgs, AgentMessage(msg))
         ELSE agent_msgs

RECURSIVE ConvertLoop(_, _, _)
ConvertLoop(messages, i, agent_msgs) ==
    IF i > Len(messages) THEN agent_msgs
    ELSE ConvertLoop(messages, i + 1, ConvertStep(agent_msgs, messages[i]))

convert_openai_to_agent_messages(messages) == ConvertLoop(messages, 1, <<>>)

----------------------------------------------------------------------------
(* Harness applying the projection to every bounded message list *)

ConvInit ==
    /\ conv_pc = "start"
    /\ conv_in \in BoundedSeq(ChatMessages, MaxLen)
    /\ conv_out = <<>>

Convert ==
    /\ conv_pc = "start"
    /\ conv_out' = convert_openai_to_agent_messages(conv_in)
    /\ conv_pc' = "done"
    /\ UNCHANGED conv_in

----------------------------------------------------------------------------
(* Exceptions.  text is str(e), a sequence of fragments. *)

Exc(type, text) == [type |-> type, text |-> text]

HTTPException(status_code, detail) ==
    [type |-> "HTTPException", status_code |-> status_code, detail |-> detail,
     text |-> <<ToString(status_code), ": ">> \o detail.error.message]

\* The classes an exception type is an instance of (its MRO below BaseException).
Mro(type) ==
    CASE type = "ValueError" -> {"ValueError", "Exception"}
      [] type = "UnicodeDecodeError" -> {"UnicodeDecodeError", "ValueError", "Exception"}
      [] type = "ValidationError" -> {"ValidationError", "ValueError", "Exception"}
      [] type = "TypeError" -> {"TypeError", "Exception"}
      [] type = "RuntimeError" -> {"RuntimeError", "Exception"}
      [] type = "HTTPException" -> {"HTTPException", "Exception"}
      [] OTHER -> {type}

IsInstance(e, cls) == cls \in Mro(e.type)

Return(v) == [kind |-> "return", value |-> v]
Raise(e) == [kind |-> "raise", exc |-> e]

----------------------------------------------------------------------------
(* The agent: an opaque collaborator.  agent.invoke returns any Python     *)
(* value or raises any exception.                                          *)

AIMessage(content) == [py |-> "AIMessage", content |-> content]
DictMessage(keys, content) == [py |-> "dict", keys |-> keys, content |-> content]

ReplyTexts == {"ok", ""}

\* Values the last element of result["messages"] can be.
ReplyMessages ==
    {AIMessage(PyStr(t)) : t \in ReplyTexts}
    \cup {AIMessage(PyNone), AIMessage(PyList(<<"block">>))}
    \cup {DictMessage({"role", "content"}, PyStr(t)) : t \in ReplyTexts}
    \cup {DictMessage({"role", "content"}, PyList(<<"block">>))}
    \cup {DictMessage({"role"}, PyNone)}
    \cup {PyStr("hello")}

PyDict(keys, messages) == [py |-> "dict", keys |-> keys, messages |-> messages]

\* Values agent.invoke can return.
AgentReplies ==
    {PyNone, PyInt(0), PyInt(42)}
    \cup {PyDict({}, PyNone), PyDict({"files"}, PyNone), PyDict({"messages"}, PyNone)}
    \cup {PyDict({"messages"}, PyList(ms)) : ms \in BoundedSeq(ReplyMessages, MaxReplyMsgs)}

UpstreamDetail ==
    [error |-> [message |-> <<"upstream rate limit">>, type |-> "upstream_error"]]

\* Exceptions agent.invoke can raise.
AgentExceptions ==
    {Exc(t, <<"boom">>) : t \in {"RuntimeError", "TypeError", "ValueError", "UnicodeDecodeError"}}
    \cup {HTTPException(429, UpstreamDetail)}

AgentOutcomes ==
    {Return(v) : v \in AgentReplies} \cup {Raise(e) : e \in AgentExceptions}

----------------------------------------------------------------------------
(* routes/v1/completions.py: invoke_agent_safely *)

HasAttr(v, attr) == attr = "content" /\ v.py = "AIMessage"

\* `"messages" in result`: membership needs a container.
SupportsIn(v) == v.py \in {"dict", "list", "str"}

TypeName(v) == v.py

\* The dict branch of the extraction reading the wrong key.
ExtractContentDictKeyLost(last_message) ==
    IF HasAttr(last_message, "content")
    THEN Return(last_message.content)
    ELSE Raise(Exc("ValueError",
              <<"Agent response missing 'content' field. Message type: ",
                TypeName(last_message)>>))

\* Lines 94-103: the content of the last message, whatever its shape.
ExtractContent(last_message) ==
    IF HasAttr(last_message, "content")
    THEN Return(last_message.content)
    ELSE IF last_message.py = "dict" /\ "content" \in last_message.keys
    THEN Return(last_message.content)
    ELSE Raise(Exc("ValueError",
              <<"Agent response missing 'content' field. Message type: ",
                TypeName(last_message)>>))

\* Lines 77-107, given what agent.invoke did.  `except Exception: raise`
\* re-raises whatever was raised.
invoke_agent_safely(a) ==
    IF a.kind = "raise" THEN a
    ELSE LET result == a.value IN
         IF ~Truthy(result)
         THEN Raise(Exc("ValueError",
                  <<"Agent returned invalid response format (missing 'messages')">>))
         ELSE IF ~SupportsIn(result)
         THEN Raise(Exc("TypeError",
                  <<"argument of type '", TypeName(result), "' is not iterable">>))
         ELSE IF "messages" \notin result.keys
         THEN Raise(Exc("ValueError",
                  <<"Agent returned invalid response format (missing 'messages')">>))
         ELSE IF ~Truthy(result.messages)
         THEN Raise(Exc("ValueError", <<"Agent returned empty messages array">>))
         ELSE ExtractContent(Last(result.messages.items))

----------------------------------------------------------------------------
(* routes/v1/completions.py: create_chat_completion *)

ErrorDetail4(message, type, param, code) ==
    [error |-> [message |-> message, type |-> type, param |-> param, code |-> code]]

ErrorDetail3(message, type, code) ==
    [error |-> [message |-> message, type |-> type, code |-> code]]

EmptyMessagesError ==
    HTTPException(400, ErrorDetail4(<<"messages array cannot be empty">>,
                                    "invalid_request_error", "messages", "invalid_value"))

NoValidMessagesError ==
    HTTPException(400, ErrorDetail4(
        <<"No valid user/assistant messages found after filtering">>,
        "invalid_request_error", "messages", "invalid_value"))

InvalidResponseError(e) ==
    HTTPException(500, ErrorDetail3(<<"Agent returned invalid response: ">> \o e.text,
                                    "agent_error", "invalid_response"))

InvocationFailedError(e) ==
    HTTPException(500, ErrorDetail3(<<"Agent invocation failed: ">> \o e.text,
                                    "agent_error", "invocation_failed"))

InternalError(e) ==
    HTTPException(500, ErrorDetail3(<<"Unexpected error: ">> \o e.text,
                                    "internal_error", "server_error"))

\* ValidateAndProject without the second check (lines 158-169).
ValidateAndProjectNoRecheck(req) ==
    IF Len(req.messages) = 0 THEN Raise(EmptyMessagesError)
    ELSE Return(convert_openai_to_agent_messages(req.messages))

\* Lines 141-171: validation and projection.  Returns the projected list
\* or raises the HTTP 400.
ValidateAndProject(req) ==
    IF Len(req.messages) = 0 THEN Raise(EmptyMessagesError)
    ELSE LET msgs == convert_openai_to_agent_messages(req.messages) IN
         IF Len(msgs) = 0 THEN Raise(NoValidMessagesError) ELSE Return(msgs)

\* Lines 174-199: the inner try around invoke_agent_safely.
InvokeStep(a) ==
    LET r == invoke_agent_safely(a) IN
    IF r.kind = "return" THEN r
    ELSE IF IsInstance(r.exc, "ValueError") THEN Raise(InvalidResponseError(r.exc))
    ELSE IF IsInstance(r.exc, "Exception") THEN Raise(InvocationFailedError(r.exc))
    ELSE r

\* uuid.uuid4(): 32 hex digits, the version digit 4 at position 13 and the
\* variant digit (8..b) at position 17, the rest random.  hi seeds the first
\* 24 digits, lo the last 8.
Uuid4(hi, lo) ==
    [i \in 1..32 |->
        IF i = 13 THEN 4
        ELSE IF i = 17 THEN 8 + (hi % 4)
        ELSE IF i <= 24 THEN (7 * hi + 3 * i) % 16
        ELSE (5 * lo + i) % 16]

Uuid4Values == {Uuid4(hi, lo) : hi \in 0..(UuidSeeds - 1), lo \in 0..(UuidSeeds - 1)}

HexDigits == <<"0", "1", "2", "3", "4", "5", "6", "7",
               "8", "9", "a", "b", "c", "d", "e", "f">>

\* UUID.hex
Hex(u) == [i \in 1..Len(u) |-> HexDigits[u[i] + 1]]

IdPrefix == <<"c", "h", "a", "t", "c", "m", "p", "l", "-">>

IdHexLen == 24

\* CompletionId without the [:24] slice.
CompletionIdFullHex(u) == IdPrefix \o Hex(u)

\* Line 202: f"chatcmpl-{uuid.uuid4().hex[:24]}", as a sequence of characters.
CompletionId(u) == IdPrefix \o SubSeq(Hex(u), 1, IdHexLen)

\* pydantic validation of ResponseMessage.content: str (schema line 34).
ResponseMessageValid(content) == content.py = "str"

\* Lines 201-222: the response model, or pydantic's ValidationError.
Package(response_content, u, now) ==
    IF ~ResponseMessageValid(response_content)
    THEN Raise(Exc("ValidationError",
             <<"1 validation error for ResponseMessage content: Input should be a valid string">>))
    ELSE Return([id |-> CompletionId(u),
                 object |-> "chat.completion",
                 created |-> now,
                 choices |-> <<[index |-> 0,
                                message |-> [role |-> "assistant",
                                             content |-> response_content.s],
                                finish_reason |-> "stop"]>>])

\* OuterExcept without the catch-all clause of lines 227-239.
OuterExceptNoCatchAll(e) == Raise(e)

\* OuterExcept without the `except HTTPException: raise` of lines 224-226.
OuterExceptWrapsAll(e) ==
    IF IsInstance(e, "Exception") THEN Raise(InternalError(e)) ELSE Raise(e)

\* Lines 224-239: the outer except clauses, applied to an exception raised
\* in the try body.
OuterExcept(e) ==
    IF IsInstance(e, "HTTPException") THEN Raise(e)
    ELSE IF IsInstance(e, "Exception") THEN Raise(InternalError(e))
    ELSE Raise(e)

\* The handler from the return of agent.invoke on: how it is left.
AfterInvoke(a, u, now) ==
    LET r == InvokeStep(a) IN
    IF r.kind = "raise" THEN OuterExcept(r.exc)
    ELSE LET p == Package(r.value, u, now) IN
         IF p.kind = "raise" THEN OuterExcept(p.exc) ELSE p

\* The exceptions raised inside the handler on that path, in order, each
\* with the place that raised it.
RaisedAfterInvoke(a, u, now) ==
    LET s == invoke_agent_safely(a)
        r == InvokeStep(a)
        p == Package(r.value, u, now)
        fromAgent == IF a.kind = "raise"
                     THEN <<[at |-> "agent.invoke", exc |-> a.exc]>>
                     ELSE IF s.kind = "raise"
                     THEN <<[at |-> "invoke_agent_safely", exc |-> s.exc]>>
                     ELSE <<>>
        fromInner == IF s.kind = "raise" /\ IsInstance(s.exc, "Exception")
                     THEN <<[at |-> "invoke_except", exc |-> r.exc]>>
                     ELSE <<>>
        fromBuild == IF r.kind = "return" /\ p.kind = "raise"
                     THEN <<[at |-> "package", exc |-> p.exc],
                            [at |-> "outer_except", exc |-> OuterExcept(p.exc).exc]>>
                     ELSE <<>>
    IN fromAgent \o fromInner \o fromBuild

----------------------------------------------------------------------------
(* The hosting layer: FastAPI with the handlers app.py leaves in place     *)
(* (none registered), and the route declared at completions.py 110-121.    *)

\* ChatCompletionRequest: messages is required, extra top-level fields are
\* forbidden (schema lines 22-27).
Body(has_messages, messages, extra_top) ==
    [has_messages |-> has_messages, messages |-> messages, extra_top |-> extra_top]

SchemaValid(body) == body.has_messages /\ ~body.extra_top

\* Messages of the requests served: every role, with content null, empty
\* and non-empty for the user role.
RequestMessages ==
    {ChatMessage(r, PyStr("hi"), PyNone, PyNone) : r \in Roles}
    \cup {ChatMessage("user", c, PyNone, PyNone) : c \in {PyNone, PyStr("")}}

Bodies ==
    {Body(TRUE, ms, FALSE) : ms \in BoundedSeq(RequestMessages, MaxMsgs)}
    \cup {Body(FALSE, <<>>, FALSE),
          Body(TRUE, <<ChatMessage("user", PyStr("hi"), PyNone, PyNone)>>, TRUE)}

JsonResponse(status, json) ==
    [status |-> status, media |-> "application/json", json |-> json]

PlainTextResponse(status, text) ==
    [status |-> status, media |-> "text/plain", text |-> text]

\* RequestValidationError, answered by FastAPI's default handler.
ValidationErrorResponse ==
    JsonResponse(422, [detail |-> <<[type |-> "missing_or_extra", loc |-> "body"]>>])

\* What reaches the client when the endpoint returns or raises: the
\* response model is serialised; an HTTPException is answered by the default
\* handler with its detail under the key "detail"; anything else is the
\* server's plain-text 500.
Respond(out) ==
    IF out.kind = "return" THEN JsonResponse(200, out.value)
    ELSE IF IsInstance(out.exc, "HTTPException")
    THEN JsonResponse(out.exc.status_code, [detail |-> out.exc.detail])
    ELSE PlainTextResponse(500, "Internal Server Error")

\* dependencies.py: get_agent
get_agent(state) ==
    IF "agent" \notin state
    THEN Raise(Exc("RuntimeError",
             <<"Agent not initialized. Check application startup logs for errors.">>))
    ELSE Return("agent")

----------------------------------------------------------------------------
(* State machine of the server *)

NoValue == [kind |-> "none"]
NoRequest == Body(FALSE, <<>>, FALSE)

ServerInit ==
    /\ lifespan = "startup"
    /\ app_state = {}
    /\ pc = "idle"
    /\ request = NoRequest
    /\ agent_messages = <<>>
    /\ invocations = 0
    /\ agent_outcome = NoValue
    /\ raised = <<>>
    /\ outcome = NoValue
    /\ http = NoValue
    /\ served = 0
    /\ waiting = 0
    /\ agent_builds = 0
    /\ cancelled = FALSE

ConvIdle ==
    /\ conv_pc = "off"
    /\ conv_in = <<>>
    /\ conv_out = <<>>

ChatIdle ==
    /\ chat_pc = "off"
    /\ chat_messages = <<>>
    /\ chat_before = <<>>
    /\ chat_last = "none"

CfgIdle ==
    /\ cfg_pc = "off"
    /\ cfg_in = NoValue
    /\ cfg_config = NoValue
    /\ cfg_out = NoValue
    /\ cfg_fs = {}
    /\ cfg_environ = NoValue

\* app.py lifespan, lines 49-69: create_agent succeeds and the agent is
\* stored, or it raises and startup fails.
Startup ==
    /\ lifespan = "startup"
    /\ \E created \in BOOLEAN :
         IF created
         THEN /\ app_state' = app_state \cup {"agent"}
              /\ agent_builds' = agent_builds + 1
              /\ lifespan' = "running"
         ELSE /\ lifespan' = "failed"
              /\ UNCHANGED <<app_state, agent_builds>>
    /\ UNCHANGED <<pc, request, agent_messages, invocations, agent_outcome,
                   raised, outcome, http, served, waiting>>
    /\ UNCHANGED <<cancelled, conv_vars, cfg_vars, chat_vars>>

\* Serving before the lifespan has reached its yield.
AcceptsRequestsEarly(position) == position \in {"startup", "running"}

\* lifespan, line 69: requests are accepted once the lifespan has yielded,
\* that is after app.state.agent was set at line 59.
AcceptsRequests(position) == position = "running"

\* The event loop is free: no endpoint coroutine is running.  The endpoint is
\* an `async def` (line 118) that calls the blocking agent.invoke directly
\* (lines 175, 78) and awaits nothing, so it holds the loop from its start
\* to its return.
LoopFree(position) == position = "idle"

\* A client sends a POST /api/v1/chat/completions; the server has the
\* connection, the endpoint has not started.
Arrive ==
    /\ AcceptsRequests(lifespan)
    /\ served + waiting + (IF pc = "idle" THEN 0 ELSE 1) < MaxRequests
    /\ waiting' = waiting + 1
    /\ UNCHANGED <<lifespan, app_state, pc, request, agent_messages, invocations,
                   agent_outcome, raised, outcome, http, served, agent_builds>>
    /\ UNCHANGED <<cancelled, conv_vars, cfg_vars, chat_vars>>

\* The event loop takes a waiting request: the dependency is resolved and
\* the body validated before the endpoint runs.
Dispatch ==
    /\ AcceptsRequests(lifespan)
    /\ LoopFree(pc)
    /\ waiting > 0
    /\ waiting' = waiting - 1
    /\ \E body \in Bodies :
         /\ request' = body
         /\ LET dep == get_agent(app_state) IN
            IF dep.kind = "raise"
            THEN /\ pc' = "done"
                 /\ http' = Respond(dep)
            ELSE IF ~SchemaValid(body)
            THEN /\ pc' = "done"
                 /\ http' = ValidationErrorResponse
            ELSE /\ pc' = "handler"
                 /\ UNCHANGED http
    /\ UNCHANGED <<lifespan, app_state, agent_messages, invocations,
                   agent_outcome, raised, outcome, served, agent_builds>>
    /\ UNCHANGED <<cancelled, conv_vars, cfg_vars, chat_vars>>

\* create_chat_completion up to the call of agent.invoke (lines 140-175).
HandlerStart ==
    /\ pc = "handler"
    /\ LET r == ValidateAndProject(request) IN
       IF r.kind = "raise"
       THEN /\ raised' = <<[at |-> IF Len(request.messages) = 0
                                   THEN "validate" ELSE "project",
                            exc |-> r.exc]>>
            /\ outcome' = OuterExcept(r.exc)
            /\ http' = Respond(OuterExcept(r.exc))
            /\ pc' = "done"
            /\ UNCHANGED <<agent_messages, invocations>>
       ELSE /\ agent_messages' = r.value
            /\ invocations' = invocations + 1
            /\ pc' = "invoking"
            /\ UNCHANGED <<raised, outcome, http>>
    /\ UNCHANGED <<lifespan, app_state, request, agent_outcome, served,
                   waiting, agent_builds>>
    /\ UNCHANGED <<cancelled, conv_vars, cfg_vars, chat_vars>>

\* A handler that calls agent.invoke again when the call raised.
PositionAfterInvokeRetrying(a) == IF a.kind = "raise" THEN "invoking" ELSE "done"

\* Where the handler stands once agent.invoke has returned or raised: the
\* call sits in a plain try (lines 174-199), in no loop, so the handler
\* goes on to its end whatever the call did.
PositionAfterInvoke(a) == "done"

\* agent.invoke returns or raises, and the handler runs to its end
\* (lines 78-239).
AgentCompletes ==
    /\ pc = "invoking"
    /\ \E a \in AgentOutcomes, u \in Uuid4Values, now \in 0..MaxClock :
         /\ pc' = PositionAfterInvoke(a)
         /\ IF PositionAfterInvoke(a) = "invoking"
            THEN /\ invocations' = invocations + 1
                 /\ UNCHANGED <<agent_outcome, raised, outcome, http>>
            ELSE /\ agent_outcome' = a
                 /\ raised' = RaisedAfterInvoke(a, u, now)
                 /\ outcome' = AfterInvoke(a, u, now)
                 /\ http' = Respond(AfterInvoke(a, u, now))
                 /\ UNCHANGED invocations
    /\ UNCHANGED <<lifespan, app_state, request, agent_messages, served,
                   waiting, agent_builds>>
    /\ UNCHANGED <<cancelled, conv_vars, cfg_vars, chat_vars>>

\* The response has been sent; the event loop is free again.
Finish ==
    /\ pc = "done"
    /\ pc' = "idle"
    /\ served' = served + 1
    /\ request' = NoRequest
    /\ agent_messages' = <<>>
    /\ invocations' = 0
    /\ agent_outcome' = NoValue
    /\ raised' = <<>>
    /\ outcome' = NoValue
    /\ http' = NoValue
    /\ cancelled' = FALSE
    /\ UNCHANGED <<lifespan, app_state, waiting, agent_builds>>
    /\ UNCHANGED <<conv_vars, cfg_vars, chat_vars>>

\* The hosting layer times out or cancels the request while the handler is
\* inside agent.invoke.  The handler is a coroutine that awaits nothing
\* (lines 118-239) and the call is synchronous (line 78), so no
\* CancelledError can be delivered into it: it goes on as before.
HostCancels ==
    /\ pc = "invoking"
    /\ ~cancelled
    /\ cancelled' = TRUE
    /\ UNCHANGED <<lifespan, app_state, pc, request, agent_messages, invocations,
                   agent_outcome, raised, outcome, http, served, waiting,
                   agent_builds>>
    /\ UNCHANGED <<conv_vars, cfg_vars, chat_vars>>

Init == ServerInit /\ ConvIdle /\ CfgIdle /\ ChatIdle

Next ==
    \/ Startup
    \/ Arrive
    \/ Dispatch
    \/ HandlerStart
    \/ HostCancels
    \/ AgentCompletes
    \/ Finish

Spec == Init /\ [][Next]_vars

ConvNext == Convert /\ UNCHANGED <<server_vars, cfg_vars, chat_vars>>

ConvHarnessInit == ServerInit /\ ConvInit /\ CfgIdle /\ ChatIdle

SpecConvert == ConvHarnessInit /\ [][ConvNext]_vars

----------------------------------------------------------------------------
(* Configuration resolution: provider, model, credential and endpoint.     *)
(* agent/provider.py, agent/core.py, agent/config.py, config.py,           *)
(* agent/run.py main and app.py lifespan.                                  *)

Providers == {"anthropic", "databricks", "openai", "azure"}

\* A provider identifier outside the supported four.
UnknownProviders == {"mistral"}

\* A keyword argument left out of a call (or an environment variable of
\* AppConfig left unset): the callee's default applies.
Omitted == [py |-> "omitted"]

\* A parameter declared `= None`: leaving it out passes None.
DefaultNone(v) == IF v.py = "omitted" THEN PyNone ELSE v

\* `a or b`
PyOr(a, b) == IF Truthy(a) THEN a ELSE b

\* The `defaults` dict of set_default_model and create_agent.
defaults ==
    [p \in Providers |->
        CASE p = "anthropic" -> PyStr("claude-sonnet-4-5-20250929")
          [] p = "databricks" -> PyStr("databricks-claude-sonnet-4-5")
          [] p = "openai" -> PyStr("gpt-4-turbo")
          [] p = "azure" -> PyStr("gpt-4")]

\* dict.get(key, default)
DictGet(d, key, default) == IF key \in DOMAIN d THEN d[key] ELSE default

EnvNames ==
    {"ANTHROPIC_API_KEY", "OPENAI_API_KEY", "AZURE_OPENAI_API_KEY",
     "AZURE_OPENAI_ENDPOINT", "DATABRICKS_HOST"}

\* os.getenv(name, default): PyNone stands for an unset variable.
Getenv(env, name, default) == IF env[name].py = "None" THEN default ELSE env[name]

\* A constructed LangChain chat model.
Client(cls, model, api_key, endpoint) ==
    [py |-> "client", cls |-> cls, model |-> model, api_key |-> api_key,
     endpoint |-> endpoint]

AnthropicKeyRequired ==
    <<"Anthropic API key required. Set ANTHROPIC_API_KEY environment variable or pass api_key parameter.">>
OpenAIKeyRequired ==
    <<"OpenAI API key required. Set OPENAI_API_KEY environment variable or pass api_key parameter.">>
AzureKeyRequired ==
    <<"Azure OpenAI API key required. Set AZURE_OPENAI_API_KEY environment variable or pass api_key parameter.">>
AzureEndpointRequired ==
    <<"Azure OpenAI endpoint required. Set AZURE_OPENAI_ENDPOINT environment variable or pass endpoint parameter.">>
UnsupportedProviderText(provider) ==
    <<"Unsupported provider: ", provider,
      ". Supported providers: anthropic, databricks, openai, azure">>

KeyFromEnvWhenFalsy(api_key, env, name) ==
    IF ~Truthy(api_key) THEN Getenv(env, name, PyNone) ELSE api_key

\* `if api_key is None: api_key = os.getenv(NAME)`
KeyFromEnv(api_key, env, name) ==
    IF api_key.py = "None" THEN Getenv(env, name, PyNone) ELSE api_key

KeyedBranchUnchecked(cls, name, required, model_name, api_key, env) ==
    Return(Client(cls, model_name, KeyFromEnv(api_key, env, name), PyNone))

\* The anthropic and openai branches: key from the parameter or the
\* environment, `if not api_key: raise ValueError`, then the client.
KeyedBranch(cls, name, required, model_name, api_key, env) ==
    LET key == KeyFromEnv(api_key, env, name)
    IN  IF ~Truthy(key)
        THEN Raise(Exc("ValueError", required))
        ELSE Return(Client(cls, model_name, key, PyNone))

\* The azure branch: key as above, then `if not endpoint: raise ValueError`.
AzureBranch(model_name, api_key, endpoint, env) ==
    LET key == KeyFromEnv(api_key, env, "AZURE_OPENAI_API_KEY")
    IN  IF ~Truthy(key)
        THEN Raise(Exc("ValueError", AzureKeyRequired))
        ELSE IF ~Truthy(endpoint)
        THEN Raise(Exc("ValueError", AzureEndpointRequired))
        ELSE Return(Client("AzureChatOpenAI", model_name, key, endpoint))

DatabricksBranchKeyed(model_name, api_key, endpoint, env) ==
    IF ~Truthy(api_key)
    THEN Raise(Exc("ValueError", <<"Databricks API key required.">>))
    ELSE Return(Client("ChatDatabricks", model_name, api_key,
                       PyOr(endpoint, PyStr("databricks"))))

\* agent/core.py: ChatDatabricks(endpoint=endpoint or "databricks",
\* model=model_name); api_key is not used.
DatabricksBranch(model_name, api_key, endpoint, env) ==
    Return(Client("ChatDatabricks", model_name, PyNone,
                  PyOr(endpoint, PyStr("databricks"))))

\* agent/provider.py: ChatDatabricks(endpoint=endpoint or model_name);
\* api_key is not used and no model is passed.
ProviderDatabricksBranch(model_name, api_key, endpoint, env) ==
    Return(Client("ChatDatabricks", PyNone, PyNone, PyOr(endpoint, model_name)))

UnsupportedBranchFallsBack(provider, model_name, api_key, env) ==
    KeyedBranch("ChatAnthropic", "ANTHROPIC_API_KEY", AnthropicKeyRequired,
                model_name, api_key, env)

\* The final else: `raise ValueError(f"Unsupported provider: {provider}. ...")`
UnsupportedBranch(provider, model_name, api_key, env) ==
    Raise(Exc("ValueError", UnsupportedProviderText(provider)))

\* agent.core.get_llm_from_provider
core_get_llm_from_provider(provider, model_name, api_key, endpoint, env) ==
    CASE provider = "anthropic" ->
            KeyedBranch("ChatAnthropic", "ANTHROPIC_API_KEY",
                        AnthropicKeyRequired, model_name, api_key, env)
      [] provider = "databricks" ->
            DatabricksBranch(model_name, api_key, endpoint, env)
      [] provider = "openai" ->
            KeyedBranch("ChatOpenAI", "OPENAI_API_KEY", OpenAIKeyRequired,
                        model_name, api_key, env)
      [] provider = "azure" -> AzureBranch(model_name, api_key, endpoint, env)
      [] OTHER -> UnsupportedBranch(provider, model_name, api_key, env)

\* agent.provider.get_llm_from_provider
provider_get_llm_from_provider(provider, model_name, api_key, endpoint, env) ==
    CASE provider = "anthropic" ->
            KeyedBranch("ChatAnthropic", "ANTHROPIC_API_KEY",
                        AnthropicKeyRequired, model_name, api_key, env)
      [] provider = "databricks" ->
            ProviderDatabricksBranch(model_name, api_key, endpoint, env)
      [] provider = "openai" ->
            KeyedBranch("ChatOpenAI", "OPENAI_API_KEY", OpenAIKeyRequired,
                        model_name, api_key, env)
      [] provider = "azure" -> AzureBranch(model_name, api_key, endpoint, env)
      [] OTHER -> UnsupportedBranch(provider, model_name, api_key, env)

Agent(llm, interrupt_on) ==
    [py |-> "agent", name |-> "marketing-research-agent", llm |-> llm,
     interrupt_on |-> interrupt_on]

\* agent.core.create_agent: the default model, then the provider client,
\* then the deep agent.
create_agent(provider, model_name, api_key, endpoint, auto_approve, env) ==
    LET model == IF DefaultNone(model_name).py = "None"
                 THEN DictGet(defaults, provider, PyNone)
                 ELSE model_name
        llm == core_get_llm_from_provider(provider, model, DefaultNone(api_key),
                                          DefaultNone(endpoint), env)
    IN  IF llm.kind = "raise"
        THEN llm
        ELSE Return(Agent(llm.value, IF auto_approve THEN <<>> ELSE <<"task">>))

\* pydantic: a field left out takes its default and its field validators
\* are not run (validate_default is off); a field passed in, None included,
\* goes through them.
Field(arg, default, validated) == IF arg.py = "omitted" THEN Return(default) ELSE validated

EmptyDict == [key \in {} |-> PyNone]

\* AgentConfig.set_default_model; `data` is info.data, the fields validated
\* so far.
AgentConfig_set_default_model(v, data) ==
    IF v.py = "None"
    THEN DictGet(defaults, DictGet(data, "provider", "anthropic"), PyNone)
    ELSE v

EndpointRequiredText(provider) ==
    <<"Endpoint required for ", provider,
      " provider. Set via --endpoint flag or AZURE_OPENAI_ENDPOINT environment variable.">>

\* AgentConfig.validate_endpoint
validate_endpoint(v, data, env) ==
    LET known == "provider" \in DOMAIN data
        provider == data["provider"]
    IN  IF known /\ provider \in {"databricks", "azure"} /\ ~Truthy(v)
        THEN LET fromEnv ==
                     IF provider = "databricks"
                     THEN Getenv(env, "DATABRICKS_HOST", PyStr("databricks"))
                     ELSE Getenv(env, "AZURE_OPENAI_ENDPOINT", PyNone)
             IN  IF ~Truthy(fromEnv) /\ provider = "azure"
                 THEN Raise(Exc("ValueError", EndpointRequiredText(provider)))
                 ELSE Return(fromEnv)
        ELSE Return(v)

LiteralErrorText ==
    <<"Input should be 'anthropic', 'databricks', 'openai' or 'azure'">>

ValidationErrorText(cls, field, text) ==
    <<"1 validation error for ", cls, ": ", field, ": ">> \o text

\* AgentConfig(provider=..., model_name=..., api_key=..., endpoint=...):
\* fields are validated in declaration order; a failed field is missing
\* from info.data of the later ones.
AgentConfig(provider, model_name, api_key, endpoint, auto_approve, env) ==
    LET data == IF provider \in Providers THEN [provider |-> provider] ELSE EmptyDict
        model == Field(model_name, PyNone,
                       Return(AgentConfig_set_default_model(model_name, data)))
        ep == Field(endpoint, PyNone, validate_endpoint(endpoint, data, env))
    IN  IF provider \notin Providers
        THEN Raise(Exc("ValidationError",
                       ValidationErrorText("AgentConfig", "provider", LiteralErrorText)))
        ELSE IF ep.kind = "raise"
        THEN Raise(Exc("ValidationError",
                       ValidationErrorText("AgentConfig", "endpoint",
                                           <<"Value error, ">> \o ep.exc.text)))
        ELSE Return([py |-> "AgentConfig", provider |-> provider,
                     model_name |-> model.value, api_key |-> DefaultNone(api_key),
                     endpoint |-> ep.value, auto_approve |-> auto_approve])

\* AppConfig.set_default_model
AppConfig_set_default_model(v, data) ==
    IF v.py = "None"
    THEN DictGet(defaults, DictGet(data, "agent_provider", "databricks"),
                 PyStr("databricks-claude-sonnet-4-5"))
    ELSE v

PyBool(b) == [py |-> "bool", b |-> b]

\* A bool parameter or field left out takes its default.
BoolOr(v, default) == IF v.py = "omitted" THEN default ELSE v.b

AutoApproveRequiredText ==
    <<"agent_auto_approve must be True for API usage. Interactive prompts cannot work in HTTP request context.">>

ValidateAutoApproveAcceptsAll(v) == Return(v)

\* AppConfig.validate_auto_approve: `if not v: raise ValueError`
validate_auto_approve(v) ==
    IF ~v.b
    THEN Raise(Exc("ValueError", AutoApproveRequiredText))
    ELSE Return(v)

\* config = AppConfig(): every field comes from its environment variable
\* (AGENT_PROVIDER, AGENT_MODEL, AGENT_AUTO_APPROVE, AGENT_ENDPOINT) or,
\* unset, from its default.
AppConfig(agent_provider, agent_model, agent_auto_approve, agent_endpoint, databricks_profile) ==
    LET data == [agent_provider |-> agent_provider]
        model == Field(agent_model, PyNone,
                       Return(AppConfig_set_default_model(agent_model, data)))
        approve == Field(agent_auto_approve, PyBool(TRUE),
                         validate_auto_approve(agent_auto_approve))
    IN  IF approve.kind = "raise"
        THEN Raise(Exc("ValidationError",
                       ValidationErrorText("AppConfig", "agent_auto_approve",
                                           <<"Value error, ">> \o approve.exc.text)))
        ELSE Return([py |-> "AppConfig", agent_provider |-> agent_provider,
                     agent_model |-> model.value,
                     agent_endpoint |-> DefaultNone(agent_endpoint),
                     agent_auto_approve |-> approve.value.b,
                     agent_workspace |-> "/tmp/agent-workspace",
                     databricks_profile |-> DefaultNone(databricks_profile)])

\* AppConfig.configure_databricks_environment: for databricks with a profile,
\* os.environ["DATABRICKS_CONFIG_PROFILE"] = profile.
configure_databricks_environment(config, environ) ==
    IF config.agent_provider # "databricks"
    THEN environ
    ELSE IF Truthy(config.databricks_profile)
    THEN [environ EXCEPT !.DATABRICKS_CONFIG_PROFILE = config.databricks_profile]
    ELSE environ

\* create_agent lines 165-170: `workspace_dir = str(Path.cwd() / "workspace")`
\* when None, then `Path(workspace_dir).mkdir(exist_ok=True)`.
WorkspaceDir(workspace_dir) ==
    IF workspace_dir.py = "None" THEN "cwd/workspace" ELSE workspace_dir.s

MkdirSkipped(fs, dir) == fs

Mkdir(fs, dir) == fs \cup {dir}

LifespanAfterContinues(a) == "running"

\* lifespan lines 58-69: the agent is stored and the application yields, or
\* the exception is re-raised as RuntimeError and startup fails.
LifespanAfter(a) == IF a.kind = "raise" THEN "failed" ELSE "running"

InvalidChoiceText(provider) ==
    <<"argument --provider: invalid choice: ", provider,
      " (choose from 'anthropic', 'databricks', 'openai', 'azure')">>

SystemExit(code, text) == [type |-> "SystemExit", code |-> code, text |-> text]

----------------------------------------------------------------------------
(* The resolution paths as a state machine.                                *)

ResolvePaths ==
    {"provider.get_llm_from_provider", "core.get_llm_from_provider",
     "create_agent", "AgentConfig", "cli", "server"}

ModelNames == {PyStr("foo-model"), PyStr("")}
ApiKeys == {PyStr("k"), PyStr("")}
Endpoints == {PyStr("https://e")}

Environments ==
    {env \in [EnvNames -> {PyNone, PyStr("k-env"), PyStr("https://env")}] :
        /\ \A n \in {"ANTHROPIC_API_KEY", "OPENAI_API_KEY", "AZURE_OPENAI_API_KEY"} :
              env[n] \in {PyNone, PyStr("k-env")}
        /\ \A n \in {"AZURE_OPENAI_ENDPOINT", "DATABRICKS_HOST"} :
              env[n] \in {PyNone, PyStr("https://env")}}

\* What each entry point can be given: the command line always passes every
\* keyword (argparse gives None for an absent option); the server takes
\* provider, model and endpoint from AGENT_PROVIDER, AGENT_MODEL and
\* AGENT_ENDPOINT (set or unset), auto-approve from AGENT_AUTO_APPROVE, and
\* never a key, and it alone reads DATABRICKS_PROFILE; model_name is a
\* required parameter of get_llm_from_provider, which has no auto_approve;
\* the workspace directory matters only where create_agent runs.
ResolveInputs ==
    {inp \in [path : ResolvePaths,
             provider : Providers \cup UnknownProviders,
             model_name : {Omitted, PyNone} \cup ModelNames,
             api_key : {Omitted, PyNone} \cup ApiKeys,
             endpoint : {Omitted, PyNone} \cup Endpoints,
             auto_approve : {Omitted, PyBool(TRUE), PyBool(FALSE)},
             databricks_profile : {Omitted, PyStr("staging")},
             workspace_exists : BOOLEAN,
             env : Environments] :
        /\ inp.path = "cli" =>
              Omitted \notin {inp.model_name, inp.api_key, inp.endpoint,
                              inp.auto_approve}
        /\ inp.path = "server" =>
              /\ PyNone \notin {inp.model_name, inp.endpoint}
              /\ inp.api_key = Omitted
        /\ inp.path # "server" => inp.databricks_profile = Omitted
        /\ inp.path \in {"provider.get_llm_from_provider",
                          "core.get_llm_from_provider", "AgentConfig"} =>
              ~inp.workspace_exists
        /\ inp.path \in {"provider.get_llm_from_provider", "core.get_llm_from_provider"} =>
              /\ inp.model_name # Omitted
              /\ inp.auto_approve = Omitted}

\* The workspace directory of an entry point: AppConfig.agent_workspace on
\* the server, the default of create_agent elsewhere.
InitialWorkspace(inp) ==
    IF inp.path = "server" THEN "/tmp/agent-workspace" ELSE WorkspaceDir(PyNone)

InitialFs(inp) == IF inp.workspace_exists THEN {InitialWorkspace(inp)} ELSE {}

InitialEnviron == [DATABRICKS_CONFIG_PROFILE |-> PyNone]

CfgInit ==
    /\ cfg_pc = "start"
    /\ cfg_in \in ResolveInputs
    /\ cfg_config = NoValue
    /\ cfg_out = NoValue
    /\ cfg_fs = InitialFs(cfg_in)
    /\ cfg_environ = InitialEnviron

\* A direct call of agent.provider.get_llm_from_provider.
ProviderGetLlm ==
    /\ cfg_pc = "start"
    /\ cfg_in.path = "provider.get_llm_from_provider"
    /\ cfg_out' = provider_get_llm_from_provider(
                      cfg_in.provider, cfg_in.model_name, DefaultNone(cfg_in.api_key),
                      DefaultNone(cfg_in.endpoint), cfg_in.env)
    /\ cfg_pc' = "done"
    /\ UNCHANGED <<cfg_in, cfg_config, cfg_fs, cfg_environ>>
    /\ UNCHANGED <<server_vars, conv_vars, chat_vars>>

\* A direct call of agent.core.get_llm_from_provider.
CoreGetLlm ==
    /\ cfg_pc = "start"
    /\ cfg_in.path = "core.get_llm_from_provider"
    /\ cfg_out' = core_get_llm_from_provider(
                      cfg_in.provider, cfg_in.model_name, DefaultNone(cfg_in.api_key),
                      DefaultNone(cfg_in.endpoint), cfg_in.env)
    /\ cfg_pc' = "done"
    /\ UNCHANGED <<cfg_in, cfg_config, cfg_fs, cfg_environ>>
    /\ UNCHANGED <<server_vars, conv_vars, chat_vars>>

\* A direct call of create_agent: the workspace directory is made before
\* the provider client is asked for.
CreateAgent ==
    /\ cfg_pc = "start"
    /\ cfg_in.path = "create_agent"
    /\ cfg_fs' = Mkdir(cfg_fs, WorkspaceDir(PyNone))
    /\ cfg_out' = create_agent(cfg_in.provider, cfg_in.model_name, cfg_in.api_key,
                               cfg_in.endpoint, BoolOr(cfg_in.auto_approve, FALSE),
                               cfg_in.env)
    /\ cfg_pc' = "done"
    /\ UNCHANGED <<cfg_in, cfg_config, cfg_environ>>
    /\ UNCHANGED <<server_vars, conv_vars, chat_vars>>

\* AgentConfig(...) built on its own.
ConstructAgentConfig ==
    /\ cfg_pc = "start"
    /\ cfg_in.path = "AgentConfig"
    /\ LET c == AgentConfig(cfg_in.provider, cfg_in.model_name, cfg_in.api_key,
                            cfg_in.endpoint, BoolOr(cfg_in.auto_approve, FALSE),
                            cfg_in.env)
       IN  /\ cfg_out' = c
           /\ cfg_config' = IF c.kind = "return" THEN c.value ELSE NoValue
    /\ cfg_pc' = "done"
    /\ UNCHANGED <<cfg_in, cfg_fs, cfg_environ>>
    /\ UNCHANGED <<server_vars, conv_vars, chat_vars>>

\* agent/run.py main, lines 178-196: argparse rejects a provider outside
\* `choices` (exit status 2); AgentConfig is built from the arguments and a
\* failure exits with status 1.
CliConfigure ==
    /\ cfg_pc = "start"
    /\ cfg_in.path = "cli"
    /\ IF cfg_in.provider \notin Providers
       THEN /\ cfg_out' = Raise(SystemExit(2, InvalidChoiceText(cfg_in.provider)))
            /\ cfg_pc' = "done"
            /\ UNCHANGED cfg_config
       ELSE LET c == AgentConfig(cfg_in.provider, cfg_in.model_name, cfg_in.api_key,
                                 cfg_in.endpoint, cfg_in.auto_approve.b, cfg_in.env)
            IN  IF c.kind = "raise"
                THEN /\ cfg_out' = Raise(SystemExit(1, <<"Configuration error: ">>
                                                        \o c.exc.text))
                     /\ cfg_pc' = "done"
                     /\ UNCHANGED cfg_config
                ELSE /\ cfg_config' = c.value
                     /\ cfg_pc' = "configured"
                     /\ UNCHANGED cfg_out
    /\ UNCHANGED <<cfg_in, cfg_fs, cfg_environ>>
    /\ UNCHANGED <<server_vars, conv_vars, chat_vars>>

\* agent/run.py main, lines 198-220: create_agent from the configuration; a
\* failure exits with status 1.
CliCreateAgent ==
    /\ cfg_pc = "configured"
    /\ cfg_in.path = "cli"
    /\ cfg_fs' = Mkdir(cfg_fs, WorkspaceDir(PyNone))
    /\ LET a == create_agent(cfg_config.provider, cfg_config.model_name,
                             cfg_config.api_key, cfg_config.endpoint,
                             cfg_config.auto_approve, cfg_in.env)
       IN  cfg_out' = IF a.kind = "raise"
                      THEN Raise(SystemExit(1, <<"Failed to create agent: ">>
                                               \o a.exc.text))
                      ELSE a
    /\ cfg_pc' = "done"
    /\ UNCHANGED <<cfg_in, cfg_config, cfg_environ>>
    /\ UNCHANGED <<server_vars, conv_vars, chat_vars>>

\* agent/run.py main, lines 222-226: with the agent created, the query or
\* the interactive loop is run.
CliRunQueries ==
    /\ cfg_pc = "done"
    /\ cfg_in.path = "cli"
    /\ cfg_out.kind = "return"
    /\ cfg_pc' = "querying"
    /\ UNCHANGED <<cfg_in, cfg_config, cfg_out, cfg_fs, cfg_environ>>
    /\ UNCHANGED <<server_vars, conv_vars, chat_vars>>

\* config.py line 110, at import of the server: a validation error ends the
\* import and the process.
ImportAppConfig ==
    /\ cfg_pc = "start"
    /\ cfg_in.path = "server"
    /\ LET c == AppConfig(cfg_in.provider, cfg_in.model_name, cfg_in.auto_approve,
                          cfg_in.endpoint, cfg_in.databricks_profile)
       IN  IF c.kind = "raise"
           THEN /\ cfg_out' = c
                /\ cfg_pc' = "done"
                /\ UNCHANGED cfg_config
           ELSE /\ cfg_config' = c.value
                /\ cfg_pc' = "configured"
                /\ UNCHANGED cfg_out
    /\ UNCHANGED <<cfg_in, cfg_fs, cfg_environ>>
    /\ UNCHANGED <<server_vars, conv_vars, chat_vars>>

\* app.py lifespan, lines 41-69: the databricks profile is exported,
\* create_agent is called from the configuration with no api_key, the agent
\* is stored and the application yields; a failure becomes RuntimeError and
\* startup fails.
LifespanCreateAgent ==
    /\ cfg_pc = "configured"
    /\ cfg_in.path = "server"
    /\ lifespan = "startup"
    /\ cfg_environ' = configure_databricks_environment(cfg_config, cfg_environ)
    /\ cfg_fs' = Mkdir(cfg_fs, WorkspaceDir(PyStr(cfg_config.agent_workspace)))
    /\ LET a == create_agent(cfg_config.agent_provider, cfg_config.agent_model,
                             Omitted, cfg_config.agent_endpoint,
                             cfg_config.agent_auto_approve, cfg_in.env)
       IN  /\ cfg_out' = IF a.kind = "raise"
                         THEN Raise(Exc("RuntimeError",
                                        <<"Agent initialization failed: ">>
                                        \o a.exc.text))
                         ELSE a
           /\ lifespan' = LifespanAfter(a)
           /\ app_state' = IF a.kind = "raise" THEN app_state
                           ELSE app_state \cup {"agent"}
           /\ agent_builds' = IF a.kind = "raise" THEN agent_builds
                              ELSE agent_builds + 1
    /\ cfg_pc' = "done"
    /\ UNCHANGED <<cfg_in, cfg_config>>
    /\ UNCHANGED <<pc, request, agent_messages, invocations, agent_outcome, raised,
                   outcome, http, served, waiting, cancelled>>
    /\ UNCHANGED <<conv_vars, chat_vars>>

ResolveInit == ServerInit /\ ConvIdle /\ CfgInit /\ ChatIdle

ResolveNext ==
    \/ ProviderGetLlm
    \/ CoreGetLlm
    \/ CreateAgent
    \/ ConstructAgentConfig
    \/ CliConfigure
    \/ CliCreateAgent
    \/ CliRunQueries
    \/ ImportAppConfig
    \/ LifespanCreateAgent
    \/ Arrive

SpecResolve == ResolveInit /\ [][ResolveNext]_vars

----------------------------------------------------------------------------
(* The interactive client: chat_cli.run_interactive.                       *)

\* Lines the user can type at `You: `.
UserInputs == {"exit", "Quit", "q", "clear", " CLEAR ", "", "   ", "hi", " hello "}

\* str.strip() and str.lower() on those lines.
Strip(line) ==
    CASE line = " CLEAR " -> "CLEAR"
      [] line = "   " -> ""
      [] line = " hello " -> "hello"
      [] OTHER -> line

Lower(line) ==
    CASE line = "Quit" -> "quit"
      [] line = "CLEAR" -> "clear"
      [] OTHER -> line

\* What send_message does: it returns choice["message"]["content"], whatever
\* JSON value that is, or raises; Ctrl-C during the request raises
\* KeyboardInterrupt.
SendOutcomes ==
    {Return(PyStr("ok")), Return(PyStr("")), Return(PyNone)}
    \cup {Raise(Exc("Exception", <<"Request timed out. The server might be processing a complex request.">>)),
          Raise(Exc("ValueError", <<"Invalid response format: missing choices">>)),
          Raise(Exc("KeyboardInterrupt", <<>>))}

HistoryMessage(role, content) == [role |-> role, content |-> content]

\* list.pop()
Pop(list) == SubSeq(list, 1, Len(list) - 1)

AfterFailedSendKeepsUser(list) == list

\* The except clause of the send (lines 211-214): the user message is
\* removed again.
AfterFailedSend(list) == Pop(list)

ChatInit ==
    /\ chat_pc = "prompt"
    /\ chat_messages = <<>>
    /\ chat_before = <<>>
    /\ chat_last = "none"

\* Lines 185-200: a line is read and stripped; exit ends the loop, clear
\* empties the history, an empty line does nothing, anything else is
\* appended as the user message and sent.
ReadLine ==
    /\ chat_pc = "prompt"
    /\ \E line \in UserInputs :
         LET user_input == Strip(line) IN
         /\ chat_before' = chat_messages
         /\ IF Lower(user_input) \in {"exit", "quit", "q"}
            THEN /\ chat_pc' = "ended"
                 /\ chat_last' = "exit"
                 /\ UNCHANGED chat_messages
            ELSE IF Lower(user_input) = "clear"
            THEN /\ chat_messages' = <<>>
                 /\ chat_last' = "clear"
                 /\ UNCHANGED chat_pc
            ELSE IF user_input = ""
            THEN /\ chat_last' = "empty"
                 /\ UNCHANGED <<chat_pc, chat_messages>>
            ELSE /\ Len(chat_messages) < 2 * MaxTurns
                 /\ chat_messages' = Append(chat_messages,
                                            HistoryMessage("user", PyStr(user_input)))
                 /\ chat_pc' = "sending"
                 /\ chat_last' = "sending"
    /\ UNCHANGED <<server_vars, conv_vars, cfg_vars>>

\* Lines 218-223: Ctrl-C or end of input at the prompt ends the loop.
InputInterrupted ==
    /\ chat_pc = "prompt"
    /\ chat_pc' = "ended"
    /\ chat_last' = "interrupted"
    /\ chat_before' = chat_messages
    /\ UNCHANGED chat_messages
    /\ UNCHANGED <<server_vars, conv_vars, cfg_vars>>

\* Lines 204-216: the reply is appended as the assistant message; an
\* Exception removes the user message; KeyboardInterrupt leaves the loop.
SendMessage ==
    /\ chat_pc = "sending"
    /\ \E sent \in SendOutcomes :
         IF sent.kind = "return"
         THEN /\ chat_messages' = Append(chat_messages,
                                         HistoryMessage("assistant", sent.value))
              /\ chat_pc' = "prompt"
              /\ chat_last' = "answered"
         ELSE IF IsInstance(sent.exc, "Exception")
         THEN /\ chat_messages' = AfterFailedSend(chat_messages)
              /\ chat_pc' = "prompt"
              /\ chat_last' = "failed"
         ELSE /\ chat_pc' = "ended"
              /\ chat_last' = "interrupted"
              /\ UNCHANGED chat_messages
    /\ UNCHANGED chat_before
    /\ UNCHANGED <<server_vars, conv_vars, cfg_vars>>

ChatHarnessInit == ServerInit /\ ConvIdle /\ CfgIdle /\ ChatInit

ChatNext == ReadLine \/ InputInterrupted \/ SendMessage

SpecChat == ChatHarnessInit /\ [][ChatNext]_vars

----------------------------------------------------------------------------
(* Vocabulary of the properties *)

\* A message the agent can use: role user or assistant, content non-empty.
IsUsable(msg) ==
    /\ msg.role \in {"user", "assistant"}
    /\ msg.content # PyNone
    /\ msg.content # PyStr("")

HandlerDone == pc = "done" /\ outcome # NoValue

\* The handler was left by an HTTPException with this status, type and code.
LeftWith(status, type, code) ==
    /\ outcome.kind = "raise"
    /\ outcome.exc.type = "HTTPException"
    /\ outcome.exc.status_code = status
    /\ outcome.exc.detail.error.type = type
    /\ "code" \in DOMAIN outcome.exc.detail.error
    /\ outcome.exc.detail.error.code = code

\* text occurs in the message, as a run of consecutive fragments.
ContainsText(message, text) ==
    \E i \in 0..(Len(message) - Len(text)) :
        SubSeq(message, i + 1, i + Len(text)) = text

AgentReturned == pc = "done" /\ agent_outcome.kind = "return"
AgentRaised == pc = "done" /\ agent_outcome.kind = "raise"

\* The reply is a mapping with a non-empty messages list.
HasLastMessage(reply) ==
    /\ reply.py = "dict"
    /\ "messages" \in reply.keys
    /\ reply.messages.py = "list"
    /\ Len(reply.messages.items) > 0

LastMessage(reply) == Last(reply.messages.items)

\* The last message exposes content, as an attribute or as a key.
BearsContent(m) ==
    \/ m.py = "AIMessage"
    \/ m.py = "dict" /\ "content" \in m.keys

----------------------------------------------------------------------------
(* C1: the projection returns exactly the messages with role user or       *)
(* assistant and non-null, non-empty content, in their input order, each   *)
(* reduced to role and content; everything else is dropped.                *)
C1_ProjectionIsUsableSubsequence ==
    conv_pc = "done" =>
        LET kept == SelectSeq(conv_in, IsUsable) IN
        /\ Len(conv_out) = Len(kept)
        /\ \A i \in 1..Len(kept) :
              /\ DOMAIN conv_out[i] = {"role", "content"}
              /\ conv_out[i].role = kept[i].role
              /\ conv_out[i].content = kept[i].content

\* Three messages, the middle one dropped, a named one kept.
C1_Witness ==
    /\ conv_pc = "done"
    /\ Len(conv_in) = 3
    /\ conv_in[1].name # PyNone
    /\ conv_in[1].role = "assistant"
    /\ conv_in[2].role = "system"
    /\ conv_in[3].role = "user"
    /\ Len(conv_out) = 2

(* C2: a request without a usable message (empty list, or every message    *)
(* filtered out) is rejected with HTTP 400, invalid_request_error, param   *)
(* "messages", code "invalid_value", and, when the list was not empty,     *)
(* with the text "No valid user/assistant messages found after filtering". *)
C2_NoUsableMessageIs400 ==
    (/\ pc \in {"invoking", "done"}
     /\ "agent" \in app_state
     /\ SchemaValid(request)
     /\ \A i \in DOMAIN request.messages : ~IsUsable(request.messages[i]))
    => /\ pc = "done"
       /\ invocations = 0
       /\ LeftWith(400, "invalid_request_error", "invalid_value")
       /\ outcome.exc.detail.error.param = "messages"
       /\ http.status = 400
       /\ Len(request.messages) > 0 =>
            outcome.exc.detail.error.message =
                <<"No valid user/assistant messages found after filtering">>

\* Only a system message.
C2_Witness ==
    /\ pc = "done"
    /\ Len(request.messages) = 1
    /\ request.messages[1].role = "system"
    /\ SchemaValid(request)
    /\ http.status = 400

(* C3: every exception raised by agent.invoke, whatever its type, gives    *)
(* HTTP 500, agent_error, code "invocation_failed", and the message holds  *)
(* the exception's text.                                                   *)
C3_InvokeExceptionIsInvocationFailed ==
    AgentRaised =>
        /\ LeftWith(500, "agent_error", "invocation_failed")
        /\ ContainsText(outcome.exc.detail.error.message, agent_outcome.exc.text)

(* C4: every malformed reply (falsy, no messages field, empty messages,    *)
(* last message without content attribute or key) gives HTTP 500,          *)
(* agent_error, code "invalid_response".                                   *)
C4_MalformedReplyIsInvalidResponse ==
    (/\ AgentReturned
     /\ \/ ~HasLastMessage(agent_outcome.value)
        \/ ~BearsContent(LastMessage(agent_outcome.value)))
    => LeftWith(500, "agent_error", "invalid_response")

(* C5: extraction does not depend on the shape of the last message: an     *)
(* object with attribute content = t and a dict with key content = t both  *)
(* make invoke_agent_safely return t, and the response built from either   *)
(* has the same shape and the message content t.                           *)
C5_ExtractionIsShapeAgnostic ==
    (/\ AgentReturned
     /\ HasLastMessage(agent_outcome.value)
     /\ BearsContent(LastMessage(agent_outcome.value))
     /\ LastMessage(agent_outcome.value).content.py = "str")
    => LET reply == agent_outcome.value
           t == LastMessage(reply).content
           n == Len(reply.messages.items)
           with(m) == Return(PyDict(reply.keys,
                          PyList([reply.messages.items EXCEPT ![n] = m])))
       IN /\ invoke_agent_safely(with(AIMessage(t))) = Return(t)
          /\ invoke_agent_safely(with(DictMessage({"role", "content"}, t))) = Return(t)
          /\ outcome.kind = "return"
          /\ DOMAIN outcome.value = {"id", "object", "created", "choices"}
          /\ Len(outcome.value.choices) = 1
          /\ outcome.value.choices[1] =
                [index |-> 0,
                 message |-> [role |-> "assistant", content |-> t.s],
                 finish_reason |-> "stop"]

\* The last message is a dict carrying the text "ok".
C5_Witness ==
    /\ AgentReturned
    /\ HasLastMessage(agent_outcome.value)
    /\ LastMessage(agent_outcome.value) = DictMessage({"role", "content"}, PyStr("ok"))
    /\ outcome.kind = "return"

LowerHexChars == {"0", "1", "2", "3", "4", "5", "6", "7", "8", "9",
                  "a", "b", "c", "d", "e", "f"}

(* C6: a successful call returns object "chat.completion", an id made of   *)
(* "chatcmpl-" and exactly 24 lowercase hex characters, and one choice     *)
(* with index 0, role assistant, finish_reason stop and the text of the    *)
(* reply's last message as content.                                        *)
C6_SuccessResponseShape ==
    (HandlerDone /\ outcome.kind = "return") =>
        LET r == outcome.value IN
        /\ http = JsonResponse(200, r)
        /\ r.object = "chat.completion"
        /\ Len(r.id) = 9 + 24
        /\ SubSeq(r.id, 1, 9) = <<"c", "h", "a", "t", "c", "m", "p", "l", "-">>
        /\ \A i \in 10..Len(r.id) : r.id[i] \in LowerHexChars
        /\ Len(r.choices) = 1
        /\ r.choices[1].index = 0
        /\ r.choices[1].message.role = "assistant"
        /\ r.choices[1].finish_reason = "stop"
        /\ HasLastMessage(agent_outcome.value)
        /\ PyStr(r.choices[1].message.content) = LastMessage(agent_outcome.value).content

\* A successful call whose id holds a letter digit.
C6_Witness ==
    /\ HandlerDone
    /\ outcome.kind = "return"
    /\ \E i \in 10..Len(outcome.value.id) : outcome.value.id[i] \in {"a", "b", "c", "d", "e", "f"}
    /\ outcome.value.choices[1].message.content = "ok"

\* The body is {error: {message, type, param?, code?}}.
IsErrorEnvelope(resp) ==
    /\ resp.media = "application/json"
    /\ "error" \in DOMAIN resp.json
    /\ {"message", "type"} \subseteq DOMAIN resp.json.error
    /\ DOMAIN resp.json.error \subseteq {"message", "type", "param", "code"}

(* C8: every failed request reaches the client with an ErrorEnvelope body, *)
(* a top-level object {error: {message, type, param?, code?}}.             *)
C8_FailureBodyIsErrorEnvelope ==
    (pc = "done" /\ http.status # 200) => IsErrorEnvelope(http)

(* C9: an exception inside the handler outside the classified cases, such  *)
(* as the response model rejecting a content that is not a string, gives   *)
(* HTTP 500, internal_error, code "server_error", with the exception's     *)
(* text in the message.                                                    *)
C9_UnclassifiedIsInternalError ==
    (/\ AgentReturned
     /\ HasLastMessage(agent_outcome.value)
     /\ BearsContent(LastMessage(agent_outcome.value))
     /\ LastMessage(agent_outcome.value).content.py # "str")
    => /\ \E i \in DOMAIN raised : raised[i].at = "package"
       /\ LeftWith(500, "internal_error", "server_error")
       /\ \A i \in DOMAIN raised :
             raised[i].at = "package" =>
                ContainsText(outcome.exc.detail.error.message, raised[i].exc.text)
       /\ http.status = 500

\* The reply's last message is an object whose content is None.
C9_Witness ==
    /\ AgentReturned
    /\ HasLastMessage(agent_outcome.value)
    /\ LastMessage(agent_outcome.value) = AIMessage(PyNone)
    /\ http.status = 500

\* The places of an HTTPException raised during validation, projection or
\* invocation, and those among them that are raise statements of the handler.
DuringSteps == {"validate", "project", "agent.invoke", "invoke_agent_safely", "invoke_except"}
OwnRaises == {"validate", "project", "invoke_except"}

PassedUnchanged(places) ==
    pc = "done" =>
        \A i \in DOMAIN raised :
            (raised[i].at \in places /\ raised[i].exc.type = "HTTPException")
            => (outcome.kind = "raise" /\ outcome.exc = raised[i].exc)

(* C10 as stated: every HTTPException raised inside the handler during     *)
(* validation, projection or invocation leaves it unchanged.               *)
C10_EveryHTTPExceptionPassesUnchanged == PassedUnchanged(DuringSteps)

(* C10 amended: an HTTPException raised by the handler's own raise         *)
(* statements (validation, projection, the except clauses around the       *)
(* invocation) leaves it unchanged; one raised by agent.invoke is replaced *)
(* by HTTP 500 agent_error / invocation_failed.                            *)
C10_OwnHTTPExceptionPassesUnchanged ==
    /\ PassedUnchanged(OwnRaises)
    /\ (AgentRaised /\ agent_outcome.exc.type = "HTTPException")
       => (/\ LeftWith(500, "agent_error", "invocation_failed")
           /\ outcome.exc # agent_outcome.exc)

\* The HTTP 500 built in the except clause for a malformed reply leaves
\* the handler as it was raised.
C10_Witness ==
    /\ pc = "done"
    /\ Len(raised) = 2
    /\ raised[2].at = "invoke_except"
    /\ raised[2].exc.detail.error.code = "invalid_response"
    /\ outcome = Raise(raised[2].exc)

(* C11: for every request the agent's invoke is called at most once:       *)
(* exactly once when the projected list is non-empty, whether the call     *)
(* succeeds or fails (no retry, no reuse of an earlier reply), and not at  *)
(* all when the request is rejected with HTTP 400.                         *)
C11_InvokeAtMostOncePerRequest ==
    /\ invocations <= 1
    /\ pc \in {"idle", "handler"} => invocations = 0
    /\ pc = "invoking" => invocations = 1
    /\ HandlerDone =>
          /\ (\E i \in DOMAIN request.messages : IsUsable(request.messages[i]))
                => invocations = 1
          /\ http.status = 400 => invocations = 0
          /\ agent_outcome # NoValue <=> invocations = 1

\* The second request of a run, whose one invocation raised.
C11_Witness ==
    /\ served = 1
    /\ HandlerDone
    /\ agent_outcome.kind = "raise"
    /\ invocations = 1

(* C19: requests are not serialized against each other: while the agent    *)
(* invocation of one request is in progress, the server can start the      *)
(* handler, and with it the invocation, of another request.                *)
C19_OtherRequestStartsDuringInvocation ==
    (pc = "invoking" /\ waiting > 0) => ENABLED Dispatch

(* C20: the agent handle is built exactly once, at startup, and is in the  *)
(* application state before any request is received or handled; nothing    *)
(* replaces or removes it afterwards.                                      *)
C20_AgentBuiltOnceBeforeServing ==
    /\ agent_builds <= 1
    /\ "agent" \in app_state <=> agent_builds = 1
    /\ (pc # "idle" \/ waiting > 0 \/ served > 0) =>
          ("agent" \in app_state /\ lifespan = "running")
    /\ lifespan = "startup" => app_state = {}

\* A second request is in its invocation, with the one handle built.
C20_Witness ==
    /\ served = 1
    /\ pc = "invoking"
    /\ agent_builds = 1
    /\ "agent" \in app_state

----------------------------------------------------------------------------
(* Vocabulary of the resolution properties *)

ResolveDone == cfg_pc = "done"
ResolveFailed == ResolveDone /\ cfg_out.kind = "raise"
ResolveSucceeded == ResolveDone /\ cfg_out.kind = "return"

\* The configuration object of class cls has been constructed.
HasConfig(cls) == "py" \in DOMAIN cfg_config /\ cfg_config.py = cls

\* The entry points that go on to build a provider client.
ClientPaths == ResolvePaths \ {"AgentConfig"}

\* The provider client that resolution has built, if any.
BuiltClients ==
    IF ~ResolveSucceeded THEN {}
    ELSE IF cfg_out.value.py = "client" THEN {cfg_out.value}
    ELSE IF cfg_out.value.py = "agent" THEN {cfg_out.value.llm}
    ELSE {}

BuiltAgents ==
    IF ResolveSucceeded /\ cfg_out.value.py = "agent" THEN {cfg_out.value} ELSE {}

Absent(v) == v.py \in {"omitted", "None"}

\* The server was given a false AGENT_AUTO_APPROVE, which AppConfig rejects
\* whatever the provider settings are.
AutoApproveRejected == cfg_in.path = "server" /\ cfg_in.auto_approve = PyBool(FALSE)

IsMissingCredential(exc) ==
    \/ ContainsText(exc.text, AnthropicKeyRequired)
    \/ ContainsText(exc.text, OpenAIKeyRequired)
    \/ ContainsText(exc.text, AzureKeyRequired)

IsMissingEndpoint(exc) ==
    \/ ContainsText(exc.text, AzureEndpointRequired)
    \/ ContainsText(exc.text, EndpointRequiredText("azure"))

IsUnsupportedProvider(exc) ==
    \E p \in UnknownProviders :
        \/ ContainsText(exc.text, UnsupportedProviderText(p))
        \/ ContainsText(exc.text, InvalidChoiceText(p))
        \/ ContainsText(exc.text, LiteralErrorText)

KeyVariable(provider) ==
    CASE provider = "anthropic" -> "ANTHROPIC_API_KEY"
      [] provider = "openai" -> "OPENAI_API_KEY"
      [] provider = "azure" -> "AZURE_OPENAI_API_KEY"

\* The key is available from the parameter, or the parameter is absent and
\* the provider's environment variable is set.
KeyAvailable ==
    \/ Truthy(DefaultNone(cfg_in.api_key))
    \/ Absent(cfg_in.api_key) /\ Truthy(cfg_in.env[KeyVariable(cfg_in.provider)])

AvailableKey ==
    IF Absent(cfg_in.api_key)
    THEN cfg_in.env[KeyVariable(cfg_in.provider)]
    ELSE cfg_in.api_key

(* C12: for each of the four providers, a configuration resolved with no   *)
(* model supplied (None, or the argument left out) carries the provider's  *)
(* default model, and the model of every resolved AgentConfig, AppConfig   *)
(* and created agent is non-empty.                                         *)
C12_MissingModelTakesDefault ==
    cfg_in.provider \in Providers =>
        /\ HasConfig("AgentConfig") =>
              /\ Truthy(cfg_config.model_name)
              /\ Absent(cfg_in.model_name) =>
                    cfg_config.model_name = defaults[cfg_in.provider]
        /\ HasConfig("AppConfig") =>
              /\ Truthy(cfg_config.agent_model)
              /\ Absent(cfg_in.model_name) =>
                    cfg_config.agent_model = defaults[cfg_in.provider]
        /\ \A a \in BuiltAgents :
              /\ Truthy(a.llm.model)
              /\ Absent(cfg_in.model_name) => a.llm.model = defaults[cfg_in.provider]

(* C13: for anthropic and openai, with no api key passed and the           *)
(* provider's environment variable unset, resolution fails with the        *)
(* missing-credential error and builds no client; with the key available   *)
(* from the parameter or the variable it builds the client with that key.  *)
C13_KeyRequiredForAnthropicOpenAI ==
    (/\ ResolveDone
     /\ cfg_in.provider \in {"anthropic", "openai"}
     /\ cfg_in.path \in ClientPaths
     /\ ~AutoApproveRejected) =>
        /\ ~KeyAvailable /\ Absent(cfg_in.api_key) =>
              /\ ResolveFailed
              /\ IsMissingCredential(cfg_out.exc)
              /\ BuiltClients = {}
        /\ KeyAvailable =>
              /\ ResolveSucceeded
              /\ \A c \in BuiltClients : c.api_key = AvailableKey
              /\ BuiltClients # {}

C13_Witness ==
    /\ ResolveFailed
    /\ cfg_in.path = "server"
    /\ cfg_in.provider = "anthropic"
    /\ cfg_in.env["ANTHROPIC_API_KEY"] = PyNone
    /\ IsMissingCredential(cfg_out.exc)

(* C14: for azure with an api key present, no endpoint passed and          *)
(* AZURE_OPENAI_ENDPOINT unset, resolution fails with the missing-endpoint *)
(* error on every path: AgentConfig construction and both                  *)
(* get_llm_from_provider.                                                  *)
C14_AzureWithoutEndpointFails ==
    (/\ ResolveDone
     /\ cfg_in.provider = "azure"
     /\ cfg_in.path \in {"AgentConfig", "provider.get_llm_from_provider",
                         "core.get_llm_from_provider"}
     /\ KeyAvailable
     /\ Absent(cfg_in.endpoint)
     /\ cfg_in.env["AZURE_OPENAI_ENDPOINT"] = PyNone) =>
        /\ ResolveFailed
        /\ IsMissingEndpoint(cfg_out.exc)

(* C15: for azure with an api key present, no endpoint parameter and       *)
(* AZURE_OPENAI_ENDPOINT set, resolution succeeds with that value as the   *)
(* endpoint, on the command-line path and on the server startup path.      *)
C15_AzureEndpointFromEnvironment ==
    (/\ ResolveDone
     /\ cfg_in.provider = "azure"
     /\ cfg_in.path \in {"cli", "server"}
     /\ ~AutoApproveRejected
     /\ KeyAvailable
     /\ Absent(cfg_in.endpoint)
     /\ cfg_in.env["AZURE_OPENAI_ENDPOINT"] # PyNone) =>
        /\ ResolveSucceeded
        /\ \A c \in BuiltClients : c.endpoint = cfg_in.env["AZURE_OPENAI_ENDPOINT"]

\* The model and the endpoint that resolution settled on.
ResolvedModel ==
    CASE cfg_in.path = "AgentConfig" -> cfg_out.value.model_name
      [] cfg_in.path = "provider.get_llm_from_provider" -> cfg_in.model_name
      [] cfg_in.path = "core.get_llm_from_provider" -> cfg_out.value.model
      [] OTHER -> cfg_out.value.llm.model

ResolvedEndpoint ==
    CASE cfg_in.path = "AgentConfig" -> cfg_out.value.endpoint
      [] cfg_in.path \in {"provider.get_llm_from_provider",
                          "core.get_llm_from_provider"} -> cfg_out.value.endpoint
      [] OTHER -> cfg_out.value.llm.endpoint

(* C16: for databricks with no endpoint supplied, resolution succeeds and  *)
(* the resolved endpoint equals the model identifier, on                   *)
(* agent.provider.get_llm_from_provider, agent.core.get_llm_from_provider  *)
(* (directly and through create_agent) and AgentConfig.                    *)
C16_DatabricksEndpointIsModel ==
    (/\ ResolveDone
     /\ cfg_in.provider = "databricks"
     /\ cfg_in.path \in {"provider.get_llm_from_provider",
                         "core.get_llm_from_provider", "create_agent", "AgentConfig"}
     /\ Absent(cfg_in.endpoint)) =>
        /\ ResolveSucceeded
        /\ ResolvedEndpoint = ResolvedModel

\* What resolution gives for an input, entry point by entry point, without
\* the api_key that AgentConfig records verbatim.
ResolveOutcome(inp) ==
    LET config == AgentConfig(inp.provider, inp.model_name, inp.api_key,
                              inp.endpoint, BoolOr(inp.auto_approve, FALSE), inp.env)
        appConfig == AppConfig(inp.provider, inp.model_name, inp.auto_approve,
                               inp.endpoint, inp.databricks_profile)
        app == appConfig.value
    IN  CASE inp.path = "provider.get_llm_from_provider" ->
                provider_get_llm_from_provider(
                    inp.provider, inp.model_name, DefaultNone(inp.api_key),
                    DefaultNone(inp.endpoint), inp.env)
          [] inp.path = "core.get_llm_from_provider" ->
                core_get_llm_from_provider(
                    inp.provider, inp.model_name, DefaultNone(inp.api_key),
                    DefaultNone(inp.endpoint), inp.env)
          [] inp.path = "create_agent" ->
                create_agent(inp.provider, inp.model_name, inp.api_key,
                             inp.endpoint, BoolOr(inp.auto_approve, FALSE), inp.env)
          [] inp.path = "AgentConfig" ->
                IF config.kind = "raise" THEN config
                ELSE Return([config.value EXCEPT !.api_key = PyNone])
          [] inp.path = "cli" ->
                IF config.kind = "raise" THEN config
                ELSE create_agent(config.value.provider, config.value.model_name,
                                  config.value.api_key, config.value.endpoint,
                                  config.value.auto_approve, inp.env)
          [] inp.path = "server" ->
                IF appConfig.kind = "raise" THEN appConfig
                ELSE create_agent(app.agent_provider, app.agent_model, Omitted,
                             app.agent_endpoint, app.agent_auto_approve, inp.env)

\* The api_key values the entry point of the input can be given.
OtherKeys(inp) ==
    {k \in {Omitted, PyNone} \cup ApiKeys :
        [inp EXCEPT !.api_key = k] \in ResolveInputs}

(* C17: for databricks, resolution succeeds whatever the api_key parameter *)
(* and the environment are, and the api_key parameter changes nothing in   *)
(* what is resolved.                                                       *)
C17_DatabricksNeedsNoKey ==
    (ResolveDone /\ cfg_in.provider = "databricks" /\ ~AutoApproveRejected) =>
        /\ ResolveSucceeded
        /\ \A c \in BuiltClients : c.api_key = PyNone
        /\ \A k \in OtherKeys(cfg_in) :
              /\ ResolveOutcome([cfg_in EXCEPT !.api_key = k]) = ResolveOutcome(cfg_in)
              /\ ResolveOutcome(cfg_in).kind = cfg_out.kind

C17_Witness ==
    /\ ResolveSucceeded
    /\ cfg_in.provider = "databricks"
    /\ cfg_in.path = "create_agent"
    /\ cfg_in.api_key = PyNone
    /\ \A n \in EnvNames : cfg_in.env[n] = PyNone
    /\ BuiltClients # {}

(* C18: for a provider outside the supported four, resolution fails with   *)
(* the unsupported-provider error, with or without a model name, and       *)
(* builds no provider client and no agent.                                 *)
C18_UnknownProviderIsRejected ==
    cfg_in.provider \notin Providers =>
        /\ cfg_out.kind # "return"
        /\ ResolveDone =>
              /\ ResolveFailed
              /\ ~AutoApproveRejected => IsUnsupportedProvider(cfg_out.exc)
              /\ BuiltClients = {}
              /\ BuiltAgents = {}

C18_Witness ==
    /\ ResolveFailed
    /\ cfg_in.provider \in UnknownProviders
    /\ cfg_in.path = "server"
    /\ cfg_in.model_name = PyStr("foo-model")
    /\ IsUnsupportedProvider(cfg_out.exc)

(* C26: in get_llm_from_provider for anthropic, openai and azure the       *)
(* environment variable is read only when api_key is None: a non-empty     *)
(* api_key parameter is the key of the client whatever the variable holds, *)
(* and an empty-string api_key fails with the missing-credential error     *)
(* even when the variable is set.                                          *)
C26_EnvironmentKeyOnlyWhenNone ==
    (/\ ResolveDone
     /\ cfg_in.provider \in {"anthropic", "openai", "azure"}
     /\ cfg_in.path \in {"provider.get_llm_from_provider",
                         "core.get_llm_from_provider"}) =>
        /\ Truthy(DefaultNone(cfg_in.api_key)) =>
              /\ ResolveFailed => ~IsMissingCredential(cfg_out.exc)
              /\ \A c \in BuiltClients : c.api_key = cfg_in.api_key
        /\ cfg_in.api_key = PyStr("") =>
              /\ ResolveFailed
              /\ IsMissingCredential(cfg_out.exc)
        /\ (Absent(cfg_in.api_key) /\ ResolveSucceeded) =>
              \A c \in BuiltClients :
                  c.api_key = cfg_in.env[KeyVariable(cfg_in.provider)]

C26_Witness ==
    /\ ResolveFailed
    /\ cfg_in.path = "core.get_llm_from_provider"
    /\ cfg_in.provider = "openai"
    /\ cfg_in.api_key = PyStr("")
    /\ cfg_in.env["OPENAI_API_KEY"] = PyStr("k-env")
    /\ IsMissingCredential(cfg_out.exc)

(* C25: AppConfig never holds agent_auto_approve = False: a false value    *)
(* supplied through AGENT_AUTO_APPROVE makes its construction fail with a  *)
(* validation error, and every agent the server's lifespan creates has an  *)
(* empty interrupt list.                                                   *)
C25_ServerAgentIsAutoApproved ==
    cfg_in.path = "server" =>
        /\ HasConfig("AppConfig") => cfg_config.agent_auto_approve
        /\ (cfg_in.auto_approve = PyBool(FALSE) /\ cfg_pc # "start") =>
              /\ ResolveFailed
              /\ cfg_out.exc.type = "ValidationError"
              /\ ContainsText(cfg_out.exc.text, AutoApproveRequiredText)
              /\ ~HasConfig("AppConfig")
        /\ \A a \in BuiltAgents : a.interrupt_on = <<>>

C25_Witness ==
    /\ ResolveFailed
    /\ cfg_in.path = "server"
    /\ cfg_in.provider = "databricks"
    /\ cfg_in.auto_approve = PyBool(FALSE)
    /\ cfg_out.exc.type = "ValidationError"

(* C21: configuration resolution only reads: whether it succeeds or fails, *)
(* the directories that exist (the workspace directory included) and the   *)
(* process environment are what they were before it started.               *)
C21_ResolutionLeavesWorldUnchanged ==
    /\ cfg_fs = InitialFs(cfg_in)
    /\ cfg_environ = InitialEnviron

(* C22: a configuration error is fatal at startup.  In the server a failed *)
(* create_agent (or AppConfig) leaves the application out of the serving   *)
(* state, with no agent stored and no request accepted or answered; on the *)
(* command line a failed AgentConfig or create_agent exits with a non-zero *)
(* status and a message, and queries are run only with a created agent.    *)
C22_ConfigurationErrorIsFatal ==
    /\ (cfg_in.path = "server" /\ ResolveFailed) =>
          /\ lifespan # "running"
          /\ "agent" \notin app_state
          /\ waiting = 0 /\ served = 0 /\ http = NoValue
          /\ ~ENABLED Arrive
    /\ (cfg_in.path = "server" /\ lifespan = "running") =>
          /\ ResolveSucceeded
          /\ BuiltAgents # {}
    /\ (cfg_in.path = "cli" /\ ResolveFailed) =>
          /\ cfg_out.exc.type = "SystemExit"
          /\ cfg_out.exc.code # 0
          /\ Len(cfg_out.exc.text) > 1
          /\ ~ENABLED CliRunQueries
    /\ cfg_pc = "querying" => cfg_out.kind = "return" /\ cfg_out.value.py = "agent"

C22_Witness ==
    /\ ResolveFailed
    /\ cfg_in.path = "server"
    /\ cfg_in.provider = "openai"
    /\ IsMissingCredential(cfg_out.exc)
    /\ cfg_out.exc.type = "RuntimeError"
    /\ lifespan = "failed"

(* C23: when the hosting layer has timed out or cancelled a request while  *)
(* create_chat_completion was handling it, the handler ends with an        *)
(* HTTP 500 error of type agent_error.                                     *)
C23_CancellationBecomesAgentError ==
    (HandlerDone /\ cancelled) =>
        /\ outcome.kind = "raise"
        /\ outcome.exc.type = "HTTPException"
        /\ outcome.exc.status_code = 500
        /\ outcome.exc.detail.error.type = "agent_error"

\* The history alternates user, assistant, ... starting with user.
Alternates(list) ==
    \A i \in DOMAIN list :
        list[i].role = IF i % 2 = 1 THEN "user" ELSE "assistant"

(* C24: at every prompt of run_interactive the history has even length and *)
(* alternates user, assistant from the start; an answered turn has added   *)
(* the user message and the reply, a failed send has left the history as   *)
(* it was before the turn, clear has emptied it and an empty line has left *)
(* it unchanged.                                                           *)
C24_HistoryAlternatesAtPrompt ==
    chat_pc = "prompt" =>
        /\ Len(chat_messages) % 2 = 0
        /\ Alternates(chat_messages)
        /\ chat_last = "answered" =>
              /\ Len(chat_messages) = Len(chat_before) + 2
              /\ SubSeq(chat_messages, 1, Len(chat_before)) = chat_before
              /\ chat_messages[Len(chat_before) + 1].role = "user"
              /\ chat_messages[Len(chat_before) + 2].role = "assistant"
        /\ chat_last \in {"failed", "empty"} => chat_messages = chat_before
        /\ chat_last = "clear" => chat_messages = <<>>

C24_Witness ==
    /\ chat_pc = "prompt"
    /\ chat_last = "failed"
    /\ Len(chat_messages) = 2
    /\ chat_messages[2].content = PyNone

====
